---- MODULE Spec2Model ----
(***************************************************************************)
(* Model of scripts/generate_gmxFF_cofactors.py: input validation, the     *)
(* two-attempt tleap build with its antechamber/parmchk2 fallback, the     *)
(* metal guard, and the two text passes over the generated topology.       *)
(*                                                                         *)
(* Text is modelled at character level: a string is a sequence of          *)
(* one-character strings, a MOL2 line is the sequence of its               *)
(* whitespace-separated fields, a topology line is its characters.         *)
(***************************************************************************)
EXTENDS Integers, Sequences, FiniteSets, TLC

\* ------------------------------------------------------------------ bounds
\* Longest MOL2 file (in lines) explored by SpecMetal.
MaxMol2Len == 3
\* Longest topology (in lines) explored by SpecTopo, besides the fixed samples.
MaxItpLen == 4

\* ------------------------------------------------------- character helpers
Lowers == <<"a","b","c","d","e","f","g","h","i","j","k","l","m",
            "n","o","p","q","r","s","t","u","v","w","x","y","z">>
Uppers == <<"A","B","C","D","E","F","G","H","I","J","K","L","M",
            "N","O","P","Q","R","S","T","U","V","W","X","Y","Z">>

Range(s) == {s[i] : i \in DOMAIN s}

\* str.isalpha on one character
IsAlpha(c) == c \in Range(Lowers) \cup Range(Uppers)

\* str.upper on one character
UpperChar(c) ==
    IF c \in Range(Lowers)
    THEN Uppers[CHOOSE i \in DOMAIN Lowers : Lowers[i] = c]
    ELSE c

\* str.lower on one character
LowerChar(c) ==
    IF c \in Range(Uppers)
    THEN Lowers[CHOOSE i \in DOMAIN Uppers : Uppers[i] = c]
    ELSE c

\* str.upper / str.lower on a string
Upper(s) == [i \in DOMAIN s |-> UpperChar(s[i])]
Lower(s) == [i \in DOMAIN s |-> LowerChar(s[i])]

\* str.startswith
StartsWith(s, p) == Len(s) >= Len(p) /\ SubSeq(s, 1, Len(p)) = p

\* ''.join(c for c in s if c.isalpha())
OnlyAlpha(s) == SelectSeq(s, IsAlpha)

IsSpace(c) == c \in {" ", "\t", "\n"}

\* str.strip: drop leading and trailing whitespace
RECURSIVE LStrip(_)
LStrip(s) == IF s # <<>> /\ IsSpace(Head(s)) THEN LStrip(Tail(s)) ELSE s
RECURSIVE RStrip(_)
RStrip(s) ==
    IF s # <<>> /\ IsSpace(s[Len(s)]) THEN RStrip(SubSeq(s, 1, Len(s) - 1)) ELSE s
Strip(s) == RStrip(LStrip(s))

\* All sequences over S of length at most n
SeqsUpTo(S, n) == UNION {[1..k -> S] : k \in 0..n}

\* ------------------------------------------------------------ mol2_has_metal
\* metals, line 16
metals ==
    { <<"F","e">>, <<"C","u">>, <<"Z","n">>, <<"M","g">>, <<"M","n">>,
      <<"C","o">>, <<"N","i">>, <<"M","o">>, <<"W">>, <<"V">>,
      <<"C","a">>, <<"K">>, <<"N","a">> }

AtomMarker == <<"@","<","T","R","I","P","O","S",">","A","T","O","M">>
BondMarker == <<"@","<","T","R","I","P","O","S",">","B","O","N","D">>

\* canon, lines 33-36
canon(el) ==
    IF el = <<>> THEN el
    ELSE IF Len(el) = 1 THEN Upper(el)
    ELSE <<UpperChar(el[1])>> \o Lower(Tail(el))

\* `up` of a line given as its fields: the stripped line starts with its
\* first field, and the markers hold no whitespace (lines 21-22).
UpOf(parts) == IF parts = <<>> THEN <<>> ELSE Upper(parts[1])

\* a mutant: only the atom name is looked at, not the type
RowIsMetalNameOnly(parts) ==
    /\ Len(parts) >= 6
    /\ canon(OnlyAlpha(parts[2])) \in metals

\* lines 29-38: the test made on one row inside the atom table
RowIsMetal(parts) ==
    /\ Len(parts) >= 6
    /\ \/ canon(OnlyAlpha(parts[2])) \in metals
       \/ canon(OnlyAlpha(parts[6])) \in metals

\* the loop of lines 19-38, from line i on with the flag in_atom
RECURSIVE ScanMol2(_, _, _)
ScanMol2(lines, i, in_atom) ==
    IF i > Len(lines) THEN FALSE
    ELSE LET parts == lines[i]
             up == UpOf(parts)
         IN  IF StartsWith(up, AtomMarker) THEN ScanMol2(lines, i + 1, TRUE)
             ELSE IF StartsWith(up, BondMarker) THEN FALSE
             ELSE IF in_atom /\ parts # <<>> /\ RowIsMetal(parts) THEN TRUE
             ELSE ScanMol2(lines, i + 1, in_atom)

\* a mutant: the except clause answers False
mol2_has_metal_fail_open(file) ==
    IF ~file.readable THEN FALSE ELSE ScanMol2(file.lines, 1, FALSE)

\* mol2_has_metal, lines 14-42.  A file is [readable, lines]: when it is
\* not readable, `lines` are those read before open or the iteration
\* raises; the except clause then yields True unless a metal row was met
\* first, which yields True as well.
mol2_has_metal(file) ==
    IF ~file.readable THEN TRUE ELSE ScanMol2(file.lines, 1, FALSE)

\* ------------------------------------------------- topology post-processing
\* A topology is a sequence of lines, a line the sequence of its characters.
Hdr(word) == <<"[", " ">> \o word \o <<" ", "]">>
W_defaults     == <<"d","e","f","a","u","l","t","s">>
W_atomtypes    == <<"a","t","o","m","t","y","p","e","s">>
W_moleculetype == <<"m","o","l","e","c","u","l","e","t","y","p","e">>
W_atoms        == <<"a","t","o","m","s">>
W_bonds        == <<"b","o","n","d","s">>
W_pairs        == <<"p","a","i","r","s">>
W_angles       == <<"a","n","g","l","e","s">>
W_dihedrals    == <<"d","i","h","e","d","r","a","l","s">>
W_system       == <<"s","y","s","t","e","m">>

\* keep, lines 199-206
keep ==
    { Hdr(W_moleculetype), Hdr(W_atoms), Hdr(W_bonds),
      Hdr(W_pairs), Hdr(W_angles), Hdr(W_dihedrals) }

\* line 211: any(stripped.startswith(h) for h in keep)
StartsKept(stripped) == \E h \in keep : StartsWith(stripped, h)

\* a mutant: the first other header closes the block instead of ending the
\* loop, so a later defaults or atomtypes header opens it again
RECURSIVE ExtractFromNoBreak(_, _, _)
ExtractFromNoBreak(lines, i, in_block) ==
    IF i > Len(lines) THEN <<>>
    ELSE LET line == lines[i]
             stripped == Strip(line)
             b == IF \/ StartsWith(stripped, Hdr(W_defaults))
                     \/ StartsWith(stripped, Hdr(W_atomtypes))
                  THEN TRUE
                  ELSE IF StartsWith(stripped, <<"[">>) THEN FALSE
                  ELSE in_block
         IN  (IF b THEN <<line>> ELSE <<>>) \o ExtractFromNoBreak(lines, i + 1, b)

\* the loop of lines 188-195: what is written to the side file from line i on
RECURSIVE ExtractFrom(_, _, _)
ExtractFrom(lines, i, in_block) ==
    IF i > Len(lines) THEN <<>>
    ELSE LET line == lines[i]
             stripped == Strip(line)
         IN  IF \/ StartsWith(stripped, Hdr(W_defaults))
                \/ StartsWith(stripped, Hdr(W_atomtypes))
             THEN <<line>> \o ExtractFrom(lines, i + 1, TRUE)
             ELSE IF /\ in_block
                     /\ StartsWith(stripped, <<"[">>)
                     /\ ~StartsWith(stripped, Hdr(W_atomtypes))
             THEN <<>>
             ELSE (IF in_block THEN <<line>> ELSE <<>>)
                  \o ExtractFrom(lines, i + 1, in_block)

\* the extraction pass, lines 184-195
ExtractPass(lines) == ExtractFrom(lines, 1, FALSE)

\* a mutant: a header outside the allow-list does not end the kept section
RECURSIVE RewriteFromNoStop(_, _, _)
RewriteFromNoStop(lines, i, write) ==
    IF i > Len(lines) THEN <<>>
    ELSE LET line == lines[i]
             w == write \/ StartsKept(Strip(line))
         IN  (IF w THEN <<line>> ELSE <<>>) \o RewriteFromNoStop(lines, i + 1, w)

\* a mutant: the line is appended under the flag of the previous line, the
\* flag is updated afterwards
RECURSIVE RewriteFromLate(_, _, _)
RewriteFromLate(lines, i, write) ==
    IF i > Len(lines) THEN <<>>
    ELSE LET line == lines[i]
             stripped == Strip(line)
             w == IF StartsKept(stripped) THEN TRUE
                  ELSE IF write /\ StartsWith(stripped, <<"[">>) THEN FALSE
                  ELSE write
         IN  (IF write THEN <<line>> ELSE <<>>) \o RewriteFromLate(lines, i + 1, w)

\* the loop of lines 209-216: the lines kept from line i on
RECURSIVE RewriteFrom(_, _, _)
RewriteFrom(lines, i, write) ==
    IF i > Len(lines) THEN <<>>
    ELSE LET line == lines[i]
             stripped == Strip(line)
             w == IF StartsKept(stripped) THEN TRUE
                  ELSE IF /\ write
                          /\ StartsWith(stripped, <<"[">>)
                          /\ stripped \notin keep
                  THEN FALSE
                  ELSE write
         IN  (IF w THEN <<line>> ELSE <<>>) \o RewriteFrom(lines, i + 1, w)

\* the in-place rewrite pass, lines 207-218
RewritePass(lines) == RewriteFrom(lines, 1, FALSE)

\* ------------------------------------------------------------------ paths
\* A path string is [abs, dir, base]: whether it starts at the root, its
\* directory components and its last component.  A directory is the
\* sequence of its components from the root; a file is [dir, base].
Path(a, d, b) == [abs |-> a, dir |-> d, base |-> b]

\* a bare file name, as os.path.basename returns it
Rel(name) == Path(FALSE, <<>>, name)

\* os.path.dirname(os.path.abspath(p)) with the working directory wd
AbsDir(wd, p) == IF p.abs THEN p.dir ELSE wd \o p.dir

\* the file a path names while the working directory is wd
FileOf(wd, p) == [dir |-> AbsDir(wd, p), base |-> p.base]

\* ------------------------------------------------------------------ state
VARIABLES
    pc,           \* position of main
    mol2, frcmod, prefix, leap_prot, leap_lipid, leap_gaff,  \* lines 73-78
    cwd,          \* the process's working directory
    chdirs,       \* how many times os.chdir has been called
    isfile,       \* the user-supplied files that are regular files
    mol2_text,    \* contents of the structure file: [readable, lines]
    prmtop,       \* <prefix>.prmtop in the work directory:
                  \*   "absent", "dir", "empty" or "nonempty"
    leap_in,      \* contents of leap.in, a sequence of script lines
    itp,          \* contents of <prefix>.itp
    ff_itp,       \* contents of <prefix>_forcefield.itp
    topol,        \* contents of topol.top
    generated,    \* the topology as parm.save produced it
    writes,       \* files written during the run, by the script or a tool,
                  \*   in order
    calls,        \* subprocess invocations so far, in order
    attempt,      \* which run_tleap call is in progress (1 or 2)
    rc,           \* res.returncode of the latest tleap, -1 before any
    wrote,        \* what the latest tleap did to <prefix>.prmtop
    ret,          \* the values run_tleap returned, in order
    metal,        \* the values mol2_has_metal returned, in order
    parsed,       \* outcome of AmberParm(...): "none" before the call,
                  \*   then "ok", "ValueError" or "raised"
    stderr,       \* diagnostics written to sys.stderr, in order
    exit_status   \* -1 while running, else the process's exit status

inputs == <<mol2, frcmod, prefix, leap_prot, leap_lipid, leap_gaff>>
wd     == <<cwd, chdirs>>
env    == <<isfile, mol2_text>>
outs   == <<itp, ff_itp, topol, generated>>
leap   == <<attempt, rc, wrote, ret>>
vars   == <<pc, inputs, wd, env, prmtop, leap_in, outs, writes, calls,
            leap, metal, parsed, stderr, exit_status>>

\* the five paths that must name existing files, lines 73-78 less the prefix
user_paths == {mol2, frcmod, leap_prot, leap_lipid, leap_gaff}

\* ---------------------------------------------------------- derived names
mol2_fn     == Rel(mol2.base)                    \* line 87
frcmod_fn   == Rel(frcmod.base)                  \* line 88
gaff_mol2   == Rel(prefix \o "_gaff.mol2")       \* line 119
gaff_frcmod == Rel(prefix \o ".frcmod")          \* line 120
prmtop_fn   == Rel(prefix \o ".prmtop")          \* line 64
rst7_fn     == Rel(prefix \o ".rst7")
gro_fn      == Rel(prefix \o ".gro")             \* line 159
srcfile     == Rel(prefix \o ".itp")             \* line 184
dstfile     == Rel(prefix \o "_forcefield.itp")  \* line 185
leap_in_fn  == Rel("leap.in")
topol_fn    == Rel("topol.top")

\* ------------------------------------------------------------ leap scripts
Line(c, a) == [cmd |-> c, args |-> a]
BlankLine  == Line("", <<>>)

\* the four commands after the sources, lines 51-54 and 98-101
Commands(pfx, m, f) ==
    << Line("LIG = loadMol2", <<m>>),
       Line("loadAmberParams", <<f>>),
       Line("saveAmberParm LIG", <<Rel(pfx \o ".prmtop"), Rel(pfx \o ".rst7")>>),
       Line("quit", <<>>) >>

\* lines 48-49
SourceLines(sources) == [i \in DOMAIN sources |-> Line("source", <<sources[i]>>)]

\* the text run_tleap writes, lines 48-55
LeapScript(pfx, m, f, sources) ==
    SourceLines(sources) \o <<BlankLine>> \o Commands(pfx, m, f)

\* the text main writes first, lines 94-102
leap_in_initial ==
    <<BlankLine>> \o SourceLines(<<leap_prot, leap_lipid, leap_gaff>>)
        \o Commands(prefix, mol2_fn, frcmod_fn)

\* a mutant: the script file is opened for append
open_a(old, text) == old \o text

\* open(name, "w") followed by the writes (lines 47, 103, 186, 217): the
\* old contents are dropped
open_w(old, text) == text

\* sources of the n-th attempt, lines 108 and 142
sources_of(n) ==
    IF n = 1 THEN <<leap_prot, leap_lipid, leap_gaff>> ELSE <<leap_prot, leap_gaff>>

\* a mutant: the retry loads the structure file of the first attempt
mol2_of_original(n) == mol2_fn

\* structure and parameter arguments of the n-th attempt, lines 109 and 143
mol2_of(n)   == IF n = 1 THEN mol2_fn ELSE gaff_mol2
frcmod_of(n) == IF n = 1 THEN frcmod_fn ELSE gaff_frcmod

\* a mutant: the size of the topology file is not looked at
run_tleap_result_no_size(code, top) == code = 0 /\ top \in {"empty", "nonempty"}

\* what run_tleap returns, lines 61-68
run_tleap_result(code, top) ==
    IF code # 0 THEN FALSE
    ELSE IF top \notin {"empty", "nonempty"} \/ top = "empty" THEN FALSE
    ELSE TRUE

\* one subprocess invocation: code is the exit status, -1 when the
\* executable could not be started
Call(tool, args, code) == [tool |-> tool, args |-> args, code |-> code]

Wrote(p) == writes' = Append(writes, FileOf(cwd, p))

\* the set of files written so far
written == Range(writes)

\* ---------------------------------------------------------------- actions
Exit(code, msg) ==
    /\ stderr' = (IF msg = "" THEN stderr ELSE Append(stderr, msg))
    /\ exit_status' = code
    /\ pc' = "exited"

Goto(next) == pc' = next /\ UNCHANGED <<stderr, exit_status>>

\* a mutant: only the structure and parameter files are validated
required_two == <<mol2, frcmod>>

\* the paths require_file is applied to, in the order line 81 walks them
required == <<mol2, frcmod, leap_prot, leap_lipid, leap_gaff>>

\* lines 81-82 with require_file, lines 8-11: the first path that is no
\* regular file ends the run
Validate ==
    /\ pc = "validate"
    /\ LET bad == {i \in DOMAIN required :
                      FileOf(cwd, required[i]) \notin isfile}
       IN  IF bad # {}
           THEN Exit(1, "ERROR: Required file not found")
           ELSE Goto("chdir")
    /\ UNCHANGED <<inputs, wd, env, prmtop, leap_in, outs, writes, calls,
                   leap, metal, parsed>>

\* a mutant: the directory of the parameter file is entered
ChdirToFrcmod ==
    /\ pc = "chdir"
    /\ cwd' = AbsDir(cwd, frcmod)
    /\ chdirs' = chdirs + 1
    /\ Goto("write_leap")
    /\ UNCHANGED <<inputs, env, prmtop, leap_in, outs, writes, calls,
                   leap, metal, parsed>>

\* lines 85-88
Chdir ==
    /\ pc = "chdir"
    /\ cwd' = AbsDir(cwd, mol2)
    /\ chdirs' = chdirs + 1
    /\ Goto("write_leap")
    /\ UNCHANGED <<inputs, env, prmtop, leap_in, outs, writes, calls,
                   leap, metal, parsed>>

\* lines 94-104
WriteLeapIn ==
    /\ pc = "write_leap"
    /\ leap_in' = open_w(leap_in, leap_in_initial)
    /\ Wrote(leap_in_fn)
    /\ attempt' = 1
    /\ Goto("tleap_write")
    /\ UNCHANGED <<inputs, wd, env, prmtop, outs, calls, rc, wrote, ret,
                   metal, parsed>>

\* run_tleap, lines 47-55: the script of this attempt replaces leap.in
TleapWrite ==
    /\ pc = "tleap_write"
    /\ leap_in' = open_w(leap_in,
            LeapScript(prefix, mol2_of(attempt), frcmod_of(attempt),
                       sources_of(attempt)))
    /\ Wrote(leap_in_fn)
    /\ Goto("tleap_run")
    /\ UNCHANGED <<inputs, wd, env, prmtop, outs, calls, leap, metal, parsed>>

\* what a tleap run can leave of <prefix>.prmtop: it writes nothing, or an
\* empty or a non-empty file (a directory of that name cannot be replaced)
TleapEffects(top) == IF top = "dir" THEN {"none"} ELSE {"none", "empty", "nonempty"}

\* run_tleap, lines 57-68: the subprocess runs and the result is derived
TleapRun ==
    /\ pc = "tleap_run"
    /\ \/ \E code \in {0, 1}, eff \in TleapEffects(prmtop) :
            /\ calls' = Append(calls, Call("tleap", <<leap_in_fn>>, code))
            /\ rc' = code
            /\ wrote' = eff
            /\ prmtop' = (IF eff = "none" THEN prmtop ELSE eff)
            /\ writes' = (IF eff = "none" THEN writes
                          ELSE Append(writes, FileOf(cwd, prmtop_fn)))
            /\ ret' = Append(ret, run_tleap_result(code, prmtop'))
            /\ Goto("tleap_ret")
       \/ \* the executable cannot be started: subprocess.run raises
          /\ calls' = Append(calls, Call("tleap", <<leap_in_fn>>, -1))
          /\ UNCHANGED <<rc, wrote, prmtop, writes, ret>>
          /\ Goto("unhandled")
    /\ UNCHANGED <<inputs, wd, env, leap_in, outs, attempt, metal, parsed>>

\* main's use of the returned value, lines 109-110 and 143-147
AfterTleap ==
    /\ pc = "tleap_ret"
    /\ IF ret[Len(ret)] THEN Goto("load")
       ELSE IF attempt = 1
            THEN /\ stderr' = Append(stderr, "First tleap build failed")
                 /\ pc' = "metal"
                 /\ UNCHANGED exit_status
            ELSE Exit(1, "ERROR: GAFF fallback tleap build also failed")
    /\ UNCHANGED <<inputs, wd, env, prmtop, leap_in, outs, writes, calls,
                   leap, metal, parsed>>

\* a mutant: the guard warns but does not end the run
MetalGuardWarnOnly ==
    /\ pc = "metal"
    /\ LET m == mol2_has_metal(mol2_text)
       IN  /\ metal' = Append(metal, m)
           /\ stderr' = (IF m THEN Append(stderr, "Detected metal center in MOL2")
                              ELSE stderr)
           /\ pc' = "antechamber"
           /\ UNCHANGED exit_status
    /\ UNCHANGED <<inputs, wd, env, prmtop, leap_in, outs, writes, calls,
                   leap, parsed>>

\* the metal guard, lines 113-116
MetalGuard ==
    /\ pc = "metal"
    /\ LET m == mol2_has_metal(mol2_text)
       IN  /\ metal' = Append(metal, m)
           /\ IF m THEN Exit(1, "Detected metal center in MOL2")
                   ELSE Goto("antechamber")
    /\ UNCHANGED <<inputs, wd, env, prmtop, leap_in, outs, writes, calls,
                   leap, parsed>>

\* a mutant: check=True is missing, a non-zero exit is not noticed
FallbackToolNoCheck(here, tool, args, out, next) ==
    /\ pc = here
    /\ \E code \in {0, 1} :
          /\ calls' = Append(calls, Call(tool, args, code))
          /\ Wrote(out)
          /\ Goto(next)

\* a subprocess.run(..., check=True) inside the try of lines 122-139:
\* a non-zero exit is caught and fatal, a failure to start is not caught
FallbackTool(here, tool, args, out, next) ==
    /\ pc = here
    /\ \/ /\ calls' = Append(calls, Call(tool, args, 0))
          /\ Wrote(out)
          /\ Goto(next)
       \/ /\ calls' = Append(calls, Call(tool, args, 1))
          /\ \/ Wrote(out)
             \/ UNCHANGED writes
          /\ Exit(1, "GAFF fallback failed during antechamber/parmchk2")
       \/ /\ calls' = Append(calls, Call(tool, args, -1))
          /\ UNCHANGED writes
          /\ Goto("unhandled")

\* lines 124-129
Antechamber ==
    /\ FallbackTool("antechamber", "antechamber", <<mol2_fn, gaff_mol2>>,
                    gaff_mol2, "parmchk2")
    /\ UNCHANGED <<inputs, wd, env, prmtop, leap_in, outs, leap, metal, parsed>>

\* lines 132-136, then line 142
Parmchk2 ==
    /\ FallbackTool("parmchk2", "parmchk2", <<gaff_mol2, gaff_frcmod>>,
                    gaff_frcmod, "tleap_write")
    /\ attempt' = (IF pc' = "tleap_write" THEN 2 ELSE attempt)
    /\ UNCHANGED <<inputs, wd, env, prmtop, leap_in, outs, rc, wrote, ret,
                   metal, parsed>>

\* a mutant: the ValueError is reported but the run goes on
LoadParmSwallow ==
    /\ pc = "load"
    /\ \/ parsed' = "ok" /\ Goto("save_gro")
       \/ /\ parsed' = "ValueError"
          /\ stderr' = Append(stderr, "ERROR: could not parse prmtop")
          /\ pc' = "save_gro"
          /\ UNCHANGED exit_status
    /\ UNCHANGED <<inputs, wd, env, prmtop, leap_in, outs, writes, calls,
                   leap, metal>>

\* lines 151-156: AmberParm parses the pair, raises ValueError (caught,
\* fatal) or raises something else (not caught)
LoadParm ==
    /\ pc = "load"
    /\ \/ parsed' = "ok" /\ Goto("save_gro")
       \/ parsed' = "ValueError" /\ Exit(1, "ERROR: could not parse prmtop")
       \/ parsed' = "raised" /\ Goto("unhandled")
    /\ UNCHANGED <<inputs, wd, env, prmtop, leap_in, outs, writes, calls,
                   leap, metal>>

\* line 159: parm.save writes the coordinate file or raises
SaveGro ==
    /\ pc = "save_gro"
    /\ \/ Wrote(gro_fn) /\ Goto("save_itp")
       \/ UNCHANGED writes /\ Goto("unhandled")
    /\ UNCHANGED <<inputs, wd, env, prmtop, leap_in, outs, calls, leap,
                   metal, parsed>>

\* the topologies parm.save is taken to produce in the full run
Ln_A == <<"A">>
Ln_B == <<"B">>
Ln_C == <<"C">>
TopologyABC ==
    << Hdr(W_defaults), Ln_A, Hdr(W_atomtypes), Ln_B, Hdr(W_moleculetype), Ln_C >>
TopologyFive ==
    << Hdr(W_defaults), Ln_A, Hdr(W_atomtypes), Ln_B, Hdr(W_moleculetype), Ln_C,
       Hdr(W_atoms), Ln_A, Hdr(W_bonds), Ln_B >>
ItpSamples == {TopologyABC, TopologyFive}

\* line 160: parm.save writes the topology or raises
SaveItp ==
    /\ pc = "save_itp"
    /\ \/ /\ itp' \in ItpSamples
          /\ generated' = itp'
          /\ Wrote(srcfile)
          /\ Goto("topol")
       \/ /\ UNCHANGED <<itp, generated, writes>>
          /\ Goto("unhandled")
    /\ UNCHANGED <<inputs, wd, env, prmtop, leap_in, ff_itp, topol, calls,
                   leap, metal, parsed>>

\* lines 164-180: the includes of topol.top, then the molecule count
WriteTopol ==
    /\ pc = "topol"
    /\ topol' = [includes |-> << Path(FALSE, <<"toppar">>, "forcefield.itp"),
                                 Rel(leap_prot.base), Rel(leap_gaff.base),
                                 srcfile >>,
                 system |-> prefix,
                 molecules |-> <<prefix, 1>>]
    /\ Wrote(topol_fn)
    /\ Goto("extract")
    /\ UNCHANGED <<inputs, wd, env, prmtop, leap_in, itp, ff_itp, generated, calls,
                   leap, metal, parsed>>

\* lines 184-196
Extract ==
    /\ pc = "extract"
    /\ ff_itp' = open_w(ff_itp, ExtractPass(itp))
    /\ Wrote(dstfile)
    /\ Goto("rewrite")
    /\ UNCHANGED <<inputs, wd, env, prmtop, leap_in, itp, topol, generated, calls,
                   leap, metal, parsed>>

\* lines 207-219
Rewrite ==
    /\ pc = "rewrite"
    /\ itp' = open_w(itp, RewritePass(itp))
    /\ Wrote(srcfile)
    /\ Goto("end")
    /\ UNCHANGED <<inputs, wd, env, prmtop, leap_in, ff_itp, topol, generated,
                   calls, leap, metal, parsed>>

\* main returns and the interpreter ends with status 0, lines 221-222
Finish ==
    /\ pc = "end"
    /\ Exit(0, "")
    /\ UNCHANGED <<inputs, wd, env, prmtop, leap_in, outs, writes, calls,
                   leap, metal, parsed>>

\* an exception nothing catches leaves main: the interpreter prints the
\* traceback to stderr and ends with status 1, lines 221-222
Unhandled ==
    /\ pc = "unhandled"
    /\ Exit(1, "Traceback")
    /\ UNCHANGED <<inputs, wd, env, prmtop, leap_in, outs, writes, calls,
                   leap, metal, parsed>>

\* ------------------------------------------------------------ the full run
Home == <<"home">>

\* structure files the full run is tried on
Row(name, atype) == <<<<"1">>, name, <<"0">>, <<"0">>, <<"0">>, atype>>
Ln_AtomMarker == <<AtomMarker>>
Ln_BondMarker == <<BondMarker>>
Ln_Fe     == Row(<<"F","E","1">>, <<"D","u">>)
Ln_Carbon == Row(<<"C","1">>, <<"c","3">>)
File(ls)   == [readable |-> TRUE, lines |-> ls]
Unreadable == [readable |-> FALSE, lines |-> <<>>]
Mol2Metal   == File(<<Ln_AtomMarker, Ln_Fe, Ln_BondMarker>>)
Mol2Organic == File(<<Ln_AtomMarker, Ln_Carbon, Ln_BondMarker>>)
\* a file whose reading fails after two lines without a metal
Mol2Broken  == [readable |-> FALSE, lines |-> <<Ln_AtomMarker, Ln_Carbon>>]
Mol2Samples == {Mol2Metal, Mol2Organic, Unreadable, Mol2Broken}

Mol2Paths   == { Rel("lig.mol2"), Path(FALSE, <<"lib">>, "lig.mol2"),
                 Rel("P_gaff.mol2") }
FrcmodPaths == { Rel("lig.frcmod"), Path(FALSE, <<"lib">>, "P.frcmod") }
GaffPaths   == { Path(TRUE, <<"amber">>, "leaprc.gaff"), Rel("leaprc.gaff") }

\* the state once the six answers are read, lines 73-78
InitRun ==
    /\ pc = "validate"
    /\ mol2 \in Mol2Paths
    /\ frcmod \in FrcmodPaths
    /\ prefix = "P"
    /\ leap_prot = Path(TRUE, <<"amber">>, "leaprc.protein.ff14SB")
    /\ leap_lipid = Path(TRUE, <<"amber">>, "leaprc.lipid21")
    /\ leap_gaff \in GaffPaths
    /\ cwd = Home
    /\ chdirs = 0
    /\ \E missing \in SUBSET user_paths :
          isfile = {FileOf(Home, p) : p \in user_paths \ missing}
    /\ mol2_text \in Mol2Samples
    /\ prmtop \in {"absent", "dir", "empty", "nonempty"}
    /\ leap_in = <<>>
    /\ itp = <<>>
    /\ ff_itp = <<>>
    /\ topol = [includes |-> <<>>, system |-> "", molecules |-> <<"", 0>>]
    /\ generated = <<>>
    /\ writes = <<>>
    /\ calls = <<>>
    /\ attempt = 1
    /\ rc = -1
    /\ wrote = "none"
    /\ ret = <<>>
    /\ metal = <<>>
    /\ parsed = "none"
    /\ stderr = <<>>
    /\ exit_status = -1

Init == InitRun

Next ==
    \/ Validate
    \/ Chdir
    \/ WriteLeapIn
    \/ TleapWrite
    \/ TleapRun
    \/ AfterTleap
    \/ MetalGuard
    \/ Antechamber
    \/ Parmchk2
    \/ LoadParm
    \/ SaveGro
    \/ SaveItp
    \/ WriteTopol
    \/ Extract
    \/ Rewrite
    \/ Finish
    \/ Unhandled

Spec == Init /\ [][Next]_vars

\* ------------------------------------------------------- claims C1 to C8
Last(q) == q[Len(q)]
Tools(name) == {i \in DOMAIN calls : calls[i].tool = name}
Times(f) == Cardinality({i \in DOMAIN writes : writes[i] = f})
Fatal(msg) ==
    /\ pc = "exited"
    /\ exit_status = 1
    /\ stderr # <<>>
    /\ Last(stderr) = msg
MissingInput == \E p \in user_paths : FileOf(Home, p) \notin isfile
PostOutputs ==
    {FileOf(cwd, gro_fn), FileOf(cwd, srcfile), FileOf(cwd, topol_fn),
     FileOf(cwd, dstfile)}
FallbackOutputs == {FileOf(cwd, gaff_mol2), FileOf(cwd, gaff_frcmod)}

\* C1: whenever run_tleap has returned, the value it returned is True
\* exactly if tleap exited zero and <prefix>.prmtop is a regular file of
\* non-zero size; and run_tleap has not ended the process.
C1_ReturnsTrueIff ==
    pc = "tleap_ret" =>
        /\ Len(ret) = Cardinality(Tools("tleap"))
        /\ Last(ret) = (/\ rc = 0
                        /\ prmtop \in {"empty", "nonempty"}
                        /\ prmtop # "empty")
        /\ exit_status = -1

\* C1 witness: tleap exited zero, the file has zero bytes, False is returned
C1_Witness ==
    /\ pc = "tleap_ret"
    /\ rc = 0
    /\ prmtop = "empty"
    /\ Last(ret) = FALSE

\* C2: a tleap run that exits zero and itself writes nothing, or writes an
\* empty topology, is reported as failure whatever the work directory held
\* before it.
C2_NoOutputIsFailure ==
    (pc = "tleap_ret" /\ rc = 0 /\ wrote \in {"none", "empty"}) => Last(ret) = FALSE

\* C3: once the first attempt has failed and the metal detector has
\* answered True, the run has ended with status 1, the only subprocess
\* call is the first tleap, and no fallback or post-processing output has
\* been written.
C3_MetalRefusal ==
    (Len(ret) >= 1 /\ ~ret[1] /\ Len(metal) >= 1 /\ metal[1]) =>
        /\ pc = "exited"
        /\ exit_status = 1
        /\ Len(calls) = 1
        /\ calls[1].tool = "tleap"
        /\ written \cap (FallbackOutputs \cup PostOutputs) = {}

C3_Witness ==
    /\ pc = "exited"
    /\ ret = <<FALSE>>
    /\ metal = <<TRUE>>
    /\ mol2_text.readable

\* C4: antechamber is called only as the second call, after a failed first
\* attempt and a detector answer of False; parmchk2 only right after an
\* antechamber that exited zero; a fallback tool that exits non-zero is the
\* last call of the run, which ends with status 1.
C4_FallbackOrder ==
    \A i \in DOMAIN calls :
        /\ calls[i].tool = "antechamber" =>
              /\ i = 2
              /\ calls[1].tool = "tleap"
              /\ Len(ret) >= 1 /\ ~ret[1]
              /\ metal = <<FALSE>>
        /\ calls[i].tool = "parmchk2" =>
              /\ i = 3
              /\ calls[2].tool = "antechamber"
              /\ calls[2].code = 0
        /\ (calls[i].tool \in {"antechamber", "parmchk2"} /\ calls[i].code = 1) =>
              /\ i = Len(calls)
              /\ pc = "exited"
              /\ exit_status = 1

C4_Witness ==
    /\ Len(calls) = 3
    /\ calls[3].tool = "parmchk2"
    /\ calls[3].code = 1
    /\ pc = "exited"

\* C5: tleap is called at most twice and each fallback tool at most once;
\* a second tleap call follows a failed first attempt and two fallback
\* tools that exited zero, and its script loads <prefix>_gaff.mol2 and
\* <prefix>.frcmod; a failed second attempt ends the run with status 1
\* before any post-processing.
C5_SingleRetry ==
    /\ Cardinality(Tools("tleap")) <= 2
    /\ Cardinality(Tools("antechamber")) <= 1
    /\ Cardinality(Tools("parmchk2")) <= 1
    /\ Cardinality(Tools("tleap")) = 2 =>
          /\ ~ret[1]
          /\ Len(calls) = 4
          /\ calls[2] = Call("antechamber", <<mol2_fn, gaff_mol2>>, 0)
          /\ calls[3] = Call("parmchk2", <<gaff_mol2, gaff_frcmod>>, 0)
          /\ calls[4].tool = "tleap"
          /\ \E j \in DOMAIN leap_in :
                leap_in[j] = Line("LIG = loadMol2", <<Rel(prefix \o "_gaff.mol2")>>)
          /\ \E j \in DOMAIN leap_in :
                leap_in[j] = Line("loadAmberParams", <<Rel(prefix \o ".frcmod")>>)
    /\ (Len(ret) = 2 /\ ~ret[2]) =>
          /\ pc \in {"tleap_ret", "exited"}
          /\ pc = "exited" => exit_status = 1
          /\ parsed = "none"
          /\ written \cap PostOutputs = {}

C5_Witness ==
    /\ ret = <<FALSE, FALSE>>
    /\ pc = "exited"
    /\ Cardinality(Tools("tleap")) = 2

\* C6: status 0 is reached only after a True from run_tleap, a successful
\* parse and both passes; each fatal condition has ended the run with
\* status 1 and its diagnostic; post-processing outputs exist only after a
\* True from run_tleap and a successful parse.
C6_ExitCodes ==
    /\ exit_status \in {-1, 0, 1}
    /\ exit_status = 0 =>
          /\ \E i \in DOMAIN ret : ret[i]
          /\ parsed = "ok"
          /\ Times(FileOf(cwd, dstfile)) = 1
          /\ Times(FileOf(cwd, srcfile)) = 2
    /\ exit_status = 1 => stderr # <<>>
    /\ (MissingInput /\ pc # "validate") => Fatal("ERROR: Required file not found")
    /\ (metal # <<>> /\ Last(metal)) => Fatal("Detected metal center in MOL2")
    /\ (\E i \in DOMAIN calls :
            calls[i].tool \in {"antechamber", "parmchk2"} /\ calls[i].code = 1)
          => Fatal("GAFF fallback failed during antechamber/parmchk2")
    /\ (Len(ret) = 2 /\ ~ret[2] /\ pc # "tleap_ret")
          => Fatal("ERROR: GAFF fallback tleap build also failed")
    /\ parsed = "ValueError" => Fatal("ERROR: could not parse prmtop")
    /\ written \cap PostOutputs # {} =>
          /\ \E i \in DOMAIN ret : ret[i]
          /\ parsed = "ok"

C6_Witness ==
    /\ exit_status = 0
    /\ ret = <<FALSE, TRUE>>
    /\ parsed = "ok"

\* C7: when one of the five user-supplied paths is no regular file, the
\* run ends at validation with status 1: the working directory is
\* unchanged, nothing is written, no subprocess is called, and nothing
\* happens after the exit.
C7_ValidateFirst ==
    /\ [](MissingInput =>
            /\ pc \in {"validate", "exited"}
            /\ pc = "exited" => exit_status = 1
            /\ cwd = Home
            /\ writes = <<>>
            /\ leap_in = <<>>
            /\ calls = <<>>)
    /\ [][pc # "exited"]_vars

C7_Witness ==
    /\ pc = "exited"
    /\ exit_status = 1
    /\ FileOf(Home, leap_gaff) \notin isfile
    /\ \A p \in {mol2, frcmod, leap_prot, leap_lipid} : FileOf(Home, p) \in isfile

\* C8: when tleap is started, leap.in holds, blank lines aside, exactly
\* the source statements of that attempt in order (protein, lipid, gaff at
\* the first; protein, gaff at the second) and then the four commands.
NonBlank(script) == SelectSeq(script, LAMBDA l : l # BlankLine)
C8_FreshScript ==
    pc = "tleap_run" =>
        NonBlank(leap_in) =
            (IF attempt = 1
             THEN << Line("source", <<leap_prot>>), Line("source", <<leap_lipid>>),
                     Line("source", <<leap_gaff>>) >>
             ELSE << Line("source", <<leap_prot>>), Line("source", <<leap_gaff>>) >>)
            \o << Line("LIG = loadMol2",
                       <<IF attempt = 1 THEN Rel(mol2.base)
                                        ELSE Rel(prefix \o "_gaff.mol2")>>),
                  Line("loadAmberParams",
                       <<IF attempt = 1 THEN Rel(frcmod.base)
                                        ELSE Rel(prefix \o ".frcmod")>>),
                  Line("saveAmberParm LIG",
                       <<Rel(prefix \o ".prmtop"), Rel(prefix \o ".rst7")>>),
                  Line("quit", <<>>) >>

C8_Witness ==
    /\ pc = "tleap_run"
    /\ attempt = 2
    /\ Len(leap_in) = 7

\* --------------------------------------------- the metal detector on its own
\* MOL2 lines the detector is tried on: the markers in both cases, a blank
\* line, rows whose name or type is or is not a metal, a row of five
\* fields, and a marker line that carries six fields
Ln_AtomLower == << <<"@","<","t","r","i","p","o","s",">","a","t","o","m">> >>
Ln_ZnType    == Row(<<"C","1">>, <<"z","n">>)
Ln_Short     == << <<"1">>, <<"F","E","1">>, <<"0">>, <<"0">>, <<"0">> >>
Ln_MarkerRow == << AtomMarker, <<"F","E">>, <<"0">>, <<"0">>, <<"0">>, <<"F","E">> >>
Mol2Lines ==
    { Ln_AtomMarker, Ln_AtomLower, Ln_BondMarker, <<>>, Ln_Fe, Ln_ZnType,
      Ln_Carbon, Ln_Short, Ln_MarkerRow }
Mol2Files ==
    {[readable |-> r, lines |-> ls] :
        r \in BOOLEAN, ls \in SeqsUpTo(Mol2Lines, MaxMol2Len)}

\* the run with every input present, up to the return of the first tleap
\* call with the given exit status and effect on an absent <prefix>.prmtop
AfterFirstTleap(code, eff) ==
    /\ mol2 = Rel("lig.mol2")
    /\ frcmod = Rel("lig.frcmod")
    /\ prefix = "P"
    /\ leap_prot = Path(TRUE, <<"amber">>, "leaprc.protein.ff14SB")
    /\ leap_lipid = Path(TRUE, <<"amber">>, "leaprc.lipid21")
    /\ leap_gaff = Path(TRUE, <<"amber">>, "leaprc.gaff")
    /\ cwd = Home
    /\ chdirs = 1
    /\ isfile = {FileOf(Home, p) : p \in user_paths}
    /\ prmtop = (IF eff = "none" THEN "absent" ELSE eff)
    /\ leap_in = LeapScript(prefix, mol2_of(1), frcmod_of(1), sources_of(1))
    /\ calls = <<Call("tleap", <<leap_in_fn>>, code)>>
    /\ attempt = 1
    /\ rc = code
    /\ wrote = eff
    /\ ret = <<run_tleap_result(code, prmtop)>>
    /\ metal = <<>>
    /\ exit_status = -1

\* the state in which the metal guard runs, for every structure file
InitMetal ==
    /\ pc = "metal"
    /\ AfterFirstTleap(1, "none")
    /\ mol2_text \in Mol2Files
    /\ itp = <<>>
    /\ ff_itp = <<>>
    /\ generated = <<>>
    /\ topol = [includes |-> <<>>, system |-> "", molecules |-> <<"", 0>>]
    /\ writes = <<FileOf(Home, leap_in_fn), FileOf(Home, leap_in_fn)>>
    /\ parsed = "none"
    /\ stderr = <<"First tleap build failed">>

NextMetal == MetalGuard

SpecMetal == InitMetal /\ [][NextMetal]_vars

\* ------------------------------------------------ the two passes on their own
\* topology lines the passes are tried on: headers inside and outside the
\* allow-list, an indented header followed by a comment, a header written
\* without blanks, a body line and an empty line
Ln_BondsIndented == <<" ">> \o Hdr(W_bonds) \o <<" ", ";", "c">>
Ln_AtomsTight    == <<"[">> \o W_atoms \o <<"]">>
ItpLines ==
    { Hdr(W_defaults), Hdr(W_atomtypes), Hdr(W_moleculetype), Hdr(W_atoms),
      Hdr(W_system), Ln_BondsIndented, Ln_AtomsTight, Ln_A, <<>> }
Topologies == SeqsUpTo(ItpLines, MaxItpLen) \cup ItpSamples

\* the state in which the extraction pass runs, for every topology
InitTopo ==
    /\ pc = "extract"
    /\ AfterFirstTleap(0, "nonempty")
    /\ mol2_text = Mol2Organic
    /\ generated \in Topologies
    /\ itp = generated
    /\ ff_itp = <<>>
    /\ topol = [includes |-> << Path(FALSE, <<"toppar">>, "forcefield.itp"),
                                Rel(leap_prot.base), Rel(leap_gaff.base),
                                srcfile >>,
                system |-> prefix,
                molecules |-> <<prefix, 1>>]
    /\ writes = << FileOf(Home, leap_in_fn), FileOf(Home, leap_in_fn),
                   FileOf(Home, prmtop_fn), FileOf(Home, gro_fn),
                   FileOf(Home, srcfile), FileOf(Home, topol_fn) >>
    /\ parsed = "ok"
    /\ stderr = <<>>

NextTopo == Extract \/ Rewrite \/ Finish

SpecTopo == InitTopo /\ [][NextTopo]_vars

\* ------------------------------------------------------ claims C9 and C10
\* the case-insensitive marker test on a line given as its fields
HasMarker(parts, marker) == parts # <<>> /\ StartsWith(Upper(parts[1]), marker)

\* an atom: a row after an atom-table marker, with no bond-table marker at
\* or before it, of at least six fields
IsAtomRow(lines, i) ==
    /\ \E j \in 1..(i - 1) : HasMarker(lines[j], AtomMarker)
    /\ \A k \in 1..i : ~HasMarker(lines[k], BondMarker)
    /\ ~HasMarker(lines[i], AtomMarker)
    /\ Len(lines[i]) >= 6

\* non-alphabetic characters stripped, first letter upper-case, rest lower-case
Canonical(str) ==
    LET a == OnlyAlpha(str)
    IN  [i \in DOMAIN a |-> IF i = 1 THEN UpperChar(a[i]) ELSE LowerChar(a[i])]

MetalAtoms(lines) ==
    {i \in DOMAIN lines :
        /\ IsAtomRow(lines, i)
        /\ \/ Canonical(lines[i][2]) \in metals
           \/ Canonical(lines[i][6]) \in metals}

\* C9: on a readable structure file the detector answers True exactly if
\* some atom row's name or type canonicalizes to a metal symbol.
C9_MetalDetector ==
    (metal # <<>> /\ mol2_text.readable) =>
        (metal[1] <=> MetalAtoms(mol2_text.lines) # {})

\* C9 witness: True for a file whose only metal is in a type field
C9_Witness ==
    /\ metal = <<TRUE>>
    /\ mol2_text.readable
    /\ Ln_ZnType \in Range(mol2_text.lines)
    /\ Ln_Fe \notin Range(mol2_text.lines)
    /\ Ln_MarkerRow \notin Range(mol2_text.lines)

\* a section header: a line whose first non-blank character is "["
IsHeaderLine(l) == StartsWith(Strip(l), <<"[">>)

\* the allow-list of the rewrite pass
AllowedWords ==
    {W_moleculetype, W_atoms, W_bonds, W_pairs, W_angles, W_dihedrals}

\* a header of the allow-list: the stripped line begins "[ name ]"
IsAllowedHeader(l) ==
    \E w \in AllowedWords : StartsWith(Strip(l), <<"[", " ">> \o w \o <<" ", "]">>)

\* the lines of allow-listed sections: those whose nearest header at or
\* before them is allow-listed
AllowedIdx(lines) ==
    {i \in DOMAIN lines :
        \E j \in 1..i :
            /\ IsAllowedHeader(lines[j])
            /\ \A k \in (j + 1)..i : ~IsHeaderLine(lines[k])}

\* the lines at the indexes I among the first n, in order
RECURSIVE Pick(_, _, _)
Pick(lines, I, n) ==
    IF n = 0 THEN <<>>
    ELSE Pick(lines, I, n - 1) \o (IF n \in I THEN <<lines[n]>> ELSE <<>>)

\* C10: after the rewrite pass the topology file holds exactly the lines of
\* the allow-listed sections of the generated topology, in order and
\* unmodified; for defaults, atomtypes, moleculetype, atoms, bonds it holds
\* the latter three sections.
C10_RewriteKeepsAllowed ==
    pc \in {"end", "exited"} /\ exit_status # 1 =>
        /\ itp = Pick(generated, AllowedIdx(generated), Len(generated))
        /\ generated = TopologyFive =>
              itp = << Hdr(W_moleculetype), Ln_C, Hdr(W_atoms), Ln_A,
                       Hdr(W_bonds), Ln_B >>

C10_Witness ==
    /\ pc = "end"
    /\ generated = TopologyFive
    /\ Len(itp) = 6

\* ----------------------------------------------------------- claim C11
\* the extraction pass has run
Extracted == Times(FileOf(cwd, dstfile)) >= 1

\* a defaults or atomtypes header: the stripped line begins with it
IsFFHeader(l) ==
    \E w \in {W_defaults, W_atomtypes} :
        StartsWith(Strip(l), <<"[", " ">> \o w \o <<" ", "]">>)

Min(S) == CHOOSE x \in S : \A y \in S : x <= y

\* the lines from the first defaults or atomtypes header up to the next
\* header that is neither, or to the end of the file
LeadingBlock(lines) ==
    LET starts == {i \in DOMAIN lines : IsFFHeader(lines[i])}
    IN  IF starts = {} THEN <<>>
        ELSE LET f == Min(starts)
                 stops == {i \in (f + 1)..Len(lines) :
                              IsHeaderLine(lines[i]) /\ ~IsFFHeader(lines[i])}
                 e == IF stops = {} THEN Len(lines) ELSE Min(stops) - 1
             IN  SubSeq(lines, f, e)

\* the lines of the defaults and atomtypes sections: those whose nearest
\* header at or before them is a defaults or atomtypes header
FFIdx(lines) ==
    {i \in DOMAIN lines :
        \E j \in 1..i :
            /\ IsFFHeader(lines[j])
            /\ \A k \in (j + 1)..i : ~IsHeaderLine(lines[k])}

\* a topology with at most one defaults and at most one atomtypes header
OneEach(lines) ==
    \A w \in {W_defaults, W_atomtypes} :
        Cardinality({i \in DOMAIN lines :
            StartsWith(Strip(lines[i]), <<"[", " ">> \o w \o <<" ", "]">>)}) <= 1

\* C11 as stated: for every ordering of the sections the side file holds
\* the defaults section and the whole atomtypes section, in order and
\* unmodified, and nothing else.
C11_EveryOrdering ==
    (Extracted /\ OneEach(generated)) =>
        ff_itp = Pick(generated, FFIdx(generated), Len(generated))

\* C11 as amended: the side file holds exactly the lines from the first
\* defaults or atomtypes header up to the next bracketed header that is
\* neither (or the end of the file), in order and unmodified; an
\* atomtypes section that follows another section is not extracted.
C11_LeadingBlock ==
    Extracted => ff_itp = LeadingBlock(generated)

\* C11 witness: a system section lies between defaults and atomtypes and
\* only the defaults section is in the side file
C11_Witness ==
    /\ Extracted
    /\ generated = <<Hdr(W_defaults), Ln_A, Hdr(W_system), Hdr(W_atomtypes)>>
    /\ ff_itp = <<Hdr(W_defaults), Ln_A>>

\* ----------------------------------------------------------- claim C12
\* C12: when the structure file cannot be read, the detector answers True;
\* after a failed first attempt the run then ends with status 1 and
\* neither antechamber nor parmchk2 is called.
C12_FailSafe ==
    (ret # <<>> /\ ~ret[1] /\ ~mol2_text.readable) =>
        /\ pc \in {"tleap_ret", "metal", "exited"}
        /\ metal \in {<<>>, <<TRUE>>}
        /\ pc = "exited" => (metal = <<TRUE>> /\ exit_status = 1)
        /\ Tools("antechamber") = {}
        /\ Tools("parmchk2") = {}

\* C12 witness: reading failed after two lines without a metal, and the
\* run ended at the guard
C12_Witness ==
    /\ pc = "exited"
    /\ mol2_text = Mol2Broken
    /\ ret = <<FALSE>>
    /\ metal = <<TRUE>>
    /\ exit_status = 1

\* ------------------------------------------------- the passes run twice
\* the extraction pass is run again on the topology it has just read,
\* before the rewrite pass touches that topology
RerunExtract ==
    /\ pc = "rewrite"
    /\ Times(FileOf(cwd, dstfile)) = 1
    /\ Times(FileOf(cwd, srcfile)) = 1
    /\ pc' = "extract"
    /\ UNCHANGED <<inputs, wd, env, prmtop, leap_in, outs, writes, calls,
                   leap, metal, parsed, stderr, exit_status>>

\* the rewrite pass is run again on the topology file it has just written
RerunRewrite ==
    /\ pc = "end"
    /\ Times(FileOf(cwd, srcfile)) = 2
    /\ pc' = "rewrite"
    /\ UNCHANGED <<inputs, wd, env, prmtop, leap_in, outs, writes, calls,
                   leap, metal, parsed, stderr, exit_status>>

NextRerun == Extract \/ RerunExtract \/ Rewrite \/ RerunRewrite \/ Finish

SpecRerun == InitTopo /\ [][NextRerun]_vars

\* ----------------------------------------------------------- claim C13
\* C13: an extraction pass run on the untouched topology when the side
\* file already holds the result of an earlier extraction leaves the side
\* file's contents as they were.
C13_ExtractTwiceSame ==
    [][(pc = "extract" /\ Extracted /\ itp = generated) => ff_itp' = ff_itp]_vars

\* C13 witness: the second extraction has run and the side file is not empty
C13_Witness ==
    /\ pc = "rewrite"
    /\ Times(FileOf(cwd, dstfile)) = 2
    /\ itp = generated
    /\ Len(ff_itp) >= 2

\* ----------------------------------------------------------- claim C17
\* the rewrite pass has run
Rewritten == Times(FileOf(cwd, srcfile)) >= 2

\* C17: every line the rewrite pass has kept is an allow-listed header, or
\* a line that does not begin with "[" and follows such a header; and a
\* rewrite pass run on its own output leaves the topology file as it was.
C17_RewriteIdempotent ==
    /\ [](Rewritten =>
            \A i \in DOMAIN itp :
                \/ IsAllowedHeader(itp[i])
                \/ /\ ~IsHeaderLine(itp[i])
                   /\ \E j \in 1..(i - 1) : IsAllowedHeader(itp[j]))
    /\ [][(pc = "rewrite" /\ Rewritten) => itp' = itp]_vars

\* C17 witness: the second rewrite has run on a file from which the first
\* had removed lines
C17_Witness ==
    /\ Times(FileOf(cwd, srcfile)) = 3
    /\ itp # <<>>
    /\ Len(itp) < Len(generated)

\* ----------------------------------------------------------- claim C14
\* the directory of the structure file as the run was started
Workdir == AbsDir(Home, mol2)

\* C14: the working directory is changed at most once, and once in every
\* run whose inputs all validate; the change happens at the step after
\* validation, when nothing has been written and no subprocess has run,
\* and leads to the structure file's directory; the directory stays that
\* one to the end of the run, fatal ends included, and every file written
\* lies in it.
C14_ChdirOnce ==
    /\ [](/\ chdirs \in {0, 1}
          /\ chdirs = 0 =>
                /\ cwd = Home
                /\ writes = <<>>
                /\ calls = <<>>
                /\ pc \in {"validate", "chdir", "exited"}
                /\ pc = "exited" => MissingInput
                /\ pc = "chdir" => ~MissingInput
          /\ chdirs = 1 =>
                /\ cwd = Workdir
                /\ ~MissingInput
                /\ pc \notin {"validate", "chdir"}
          /\ \A f \in written : f.dir = Workdir)
    /\ [][(cwd' # cwd \/ chdirs' # chdirs) => pc = "chdir"]_vars

\* C14 witness: a run in another directory than the one it was started in
\* has ended fatally after writing files
C14_Witness ==
    /\ pc = "exited"
    /\ exit_status = 1
    /\ chdirs = 1
    /\ cwd # Home
    /\ cwd = Workdir
    /\ Len(writes) >= 3

\* ----------------------------------------------------------- claim C15
\* C15: neither the structure file nor the parameter file the user named
\* is ever among the files written, whatever the prefix and the names.
C15_InputsUntouched ==
    /\ FileOf(Home, mol2) \notin written
    /\ FileOf(Home, frcmod) \notin written

\* ----------------------------------------------------------- claim C16
\* the files the script in leap.in tells tleap to read, in script order,
\* each name resolved against the working directory of the tleap process
ReadCmds == {"source", "LIG = loadMol2", "loadAmberParams"}
RECURSIVE ReadsFrom(_, _)
ReadsFrom(script, i) ==
    IF i > Len(script) THEN <<>>
    ELSE (IF script[i].cmd \in ReadCmds
          THEN <<FileOf(cwd, script[i].args[1])>> ELSE <<>>)
         \o ReadsFrom(script, i + 1)

\* C16: when the first tleap is about to run, the files leap.in names are
\* the three source files, the structure file and the parameter file that
\* validation looked at from the starting directory.
C16_ReadsValidated ==
    (pc = "tleap_run" /\ attempt = 1) =>
        ReadsFrom(leap_in, 1) =
            << FileOf(Home, leap_prot), FileOf(Home, leap_lipid),
               FileOf(Home, leap_gaff), FileOf(Home, mol2), FileOf(Home, frcmod) >>

====
